---------------------------- MODULE Spec2Model ----------------------------
(***************************************************************************)
(* EventTimings: the per-rank event registry (EventRegistry, RankData,     *)
(* EventData of src/EventUtils.cpp) and its end-of-run protocol: clock     *)
(* normalization by a minimum reduction and the all-to-one collection of   *)
(* every rank's RankData on rank 0 over point-to-point messages.           *)
(*                                                                         *)
(* Time is counted in clock ticks.  Event names are sequences of           *)
(* character codes, compared lexicographically as std::map<std::string>    *)
(* does.  A blocking MPI call is one action per suspension point; pc is    *)
(* each rank's position inside EventRegistry::finalize.                    *)
(***************************************************************************)
EXTENDS Integers, Sequences, FiniteSets, TLC

\* Number of MPI ranks of the communicator.
N == 2
\* Calls of EventRegistry::put over the whole run.
MaxPuts == 2
\* Calls of EventRegistry::initialize per rank.
MaxInit == 2
\* Calls of EventRegistry::finalize per rank (direct or by signal_handler).
MaxFinalize == 2
\* Largest reading of the wall clock (system_clock) and of a steady clock.
MaxWall == 2
MaxTicks == 2
\* Occurrences merged into the RankData of a process taken alone.
MaxMerges == 3
\* Length of the vector of RankData handed to getGlobalStats.
MaxEntries == 3

\* sizeof(MPI_EventData::name)
NameBufSize == 255
\* Ticks of Event::Clock::duration per std::chrono::milliseconds.
TicksPerMs == 1000000
\* Event::Clock::duration::max() and ::min(), cut to the checker's integers.
DurationMax == 2147483647
DurationMin == -2147483647

Ranks == 0 .. (N - 1)

\* Event names the application uses.
Names == {<<1>>, <<2>>}
\* State labels of Event::StateChanges; Corrupt stands for a label object
\* whose bytes were copied from another address space.
Labels == {"STARTED"}
Corrupt == "corrupt"
\* The duration of the occurrences the event source produces (1.5 ms).
Durations == {1500000}
\* Their sample data.
DataChoices == {<<>>, <<7>>}

VARIABLES
  pc,             \* rank -> position in EventRegistry::finalize
  initialized,    \* rank -> EventRegistry::initialized
  localRankData,  \* rank -> EventRegistry::localRankData
  globalRankData, \* rank -> EventRegistry::globalRankData
  chan,           \* rank -> messages sent to rank 0 and not yet received
  coll,           \* rank -> the rank's collective calls on comm, in order
  rcv,            \* rank 0's receive loop: i, j, eventsPerRank, data, ev
  wall,           \* the wall clock (system_clock)
  stdy,           \* rank -> the rank's steady clock
  calls,          \* rank -> how many initialize / finalize calls so far
  nput,           \* how many put calls so far
  limit,          \* how many put, initialize and finalize calls the
                  \* application makes in this run
  scHist,         \* history: rank -> name -> per state change, norm: the
                  \* number of normalizeTo shifts applied to it, and init:
                  \* the number of initialize calls that preceded it
  sentSnap,       \* history: rank -> the localRankData of each collect
  lastNorm,       \* history: rank -> the latest normalizeTo: n, how many
                  \* so far; call, its MPI_Allreduce among the rank's
                  \* collective calls; t0, before, after and ok
  recvFrom,       \* history: source rank of each globalRankData entry
  solo,           \* one process's RankData taken alone, with its history
  stats,          \* getGlobalStats: its argument and its result
  wire            \* one event's passage through the send and receive loops

\* The registries of all ranks and the messages between them.
registry == <<pc, initialized, localRankData, globalRankData, chan,
              coll, rcv, wall, stdy, calls, nput, limit, scHist,
              sentSnap, lastNorm, recvFrom>>
\* The components taken alone.
units == <<solo, stats, wire>>

vars == <<pc, initialized, localRankData, globalRankData, chan,
          coll, rcv, wall, stdy, calls, nput, limit, scHist,
          sentSnap, lastNorm, recvFrom, solo, stats, wire>>

-----------------------------------------------------------------------------
(* Helpers *)

Min2(a, b) == IF a <= b THEN a ELSE b
Max2(a, b) == IF a >= b THEN a ELSE b

\* std::string operator<: lexicographic order on character sequences.
RECURSIVE LexLess(_, _)
LexLess(a, b) ==
  IF b = <<>> THEN FALSE
  ELSE IF a = <<>> THEN TRUE
  ELSE IF Head(a) # Head(b) THEN Head(a) < Head(b)
  ELSE LexLess(Tail(a), Tail(b))

\* Iteration order of std::map<std::string, EventData>: keys ascending.
RECURSIVE SortedNames(_)
SortedNames(S) ==
  IF S = {} THEN <<>>
  ELSE LET first == CHOOSE x \in S : \A y \in S \ {x} : LexLess(x, y)
       IN  <<first>> \o SortedNames(S \ {first})

\* duration_cast<milliseconds>(d).count(): truncation toward zero.
ToMs(d) == IF d >= 0 THEN d \div TicksPerMs ELSE -((-d) \div TicksPerMs)
\* std::chrono::milliseconds(ms) converted to Event::Clock::duration.
FromMs(ms) == ms * TicksPerMs

\* A clock read: the clock does not go back, and stops at its largest reading.
ClockReads(now, max) == {t \in {now, now + 1} : t <= max}

-----------------------------------------------------------------------------
(* EventData and RankData *)

\* EventData::EventData(name): the sentinels of the header's member
\* initializers.
NewEventData ==
  [count |-> 0, total |-> 0, max |-> DurationMin, min |-> DurationMax,
   data |-> <<>>, stateChanges |-> <<>>]

\* Faulty variant of EventDataPut: max folded with std::min.
EventDataPutMinForMax(ed, ev) ==
  [count        |-> ed.count + 1,
   total        |-> ed.total + ev.duration,
   min          |-> Min2(ev.duration, ed.min),
   max          |-> Min2(ev.duration, ed.max),
   data         |-> ed.data \o ev.data,
   stateChanges |-> ed.stateChanges \o ev.stateChanges]

\* EventData::put(event)
EventDataPut(ed, ev) ==
  [count        |-> ed.count + 1,
   total        |-> ed.total + ev.duration,
   min          |-> Min2(ev.duration, ed.min),
   max          |-> Max2(ev.duration, ed.max),
   data         |-> ed.data \o ev.data,
   stateChanges |-> ed.stateChanges \o ev.stateChanges]

\* A default-constructed RankData.
NewRankData ==
  [initializedAt |-> 0, finalizedAt |-> 0,
   initializedAtTicks |-> 0, finalizedAtTicks |-> 0,
   isFinalized |-> FALSE, evData |-> <<>>]

\* RankData::initialize()
RankDataInitialize(rd, sysNow, stdyNow) ==
  [rd EXCEPT !.initializedAt = sysNow, !.initializedAtTicks = stdyNow,
             !.isFinalized = FALSE]

\* RankData::finalize()
RankDataFinalize(rd, sysNow, stdyNow) ==
  [rd EXCEPT !.finalizedAt = sysNow, !.finalizedAtTicks = stdyNow,
             !.isFinalized = TRUE]

\* Faulty variant of RankDataPut: the entry is constructed anew on every
\* put (insert_or_assign for emplace).
RankDataPutAssign(rd, ev) ==
  [rd EXCEPT !.evData =
     [n \in (DOMAIN rd.evData) \cup {ev.name} |->
        IF n = ev.name THEN EventDataPut(NewEventData, ev)
        ELSE rd.evData[n]]]

\* RankData::put(event): emplace (find or construct) and merge.
RankDataPut(rd, ev) ==
  LET cur == IF ev.name \in DOMAIN rd.evData THEN rd.evData[ev.name]
             ELSE NewEventData
  IN  [rd EXCEPT !.evData =
         [n \in (DOMAIN rd.evData) \cup {ev.name} |->
            IF n = ev.name THEN EventDataPut(cur, ev) ELSE rd.evData[n]]]

\* RankData::addEventData(ed): emplace does not replace an existing key.
AddEventData(rd, name, ed) ==
  IF name \in DOMAIN rd.evData THEN rd
  ELSE [rd EXCEPT !.evData =
          [n \in (DOMAIN rd.evData) \cup {name} |->
             IF n = name THEN ed ELSE rd.evData[n]]]


\* Faulty variant of ShiftTimepoint: delta is left out of the shift.
ShiftWithoutDelta(rd, t0, tp) == tp - rd.initializedAtTicks

\* The shift of RankData::normalizeTo: tp - initializedAtTicks + delta, with
\* delta = initializedAt - t0.
ShiftTimepoint(rd, t0, tp) ==
  tp - rd.initializedAtTicks + (rd.initializedAt - t0)

\* The state changes of a RankData in the iteration order of normalizeTo's
\* two loops: events by ascending name, and each event's log front to back.
RECURSIVE ScPositions(_, _)
ScPositions(names, evData) ==
  IF names = <<>> THEN <<>>
  ELSE [i \in 1 .. Len(evData[Head(names)].stateChanges) |-> <<Head(names), i>>]
       \o ScPositions(Tail(names), evData)

\* Faulty variant of NormalizeTo: the loops run over copies of the events (auto
\* instead of auto &), so that no stored timestamp is shifted.
NormalizeToOnCopies(rd, t0) ==
  [ok |-> t0 <= rd.initializedAt, touched |-> {}, rd |-> rd]

\* RankData::normalizeTo(t0).  ok: no assertion failed.  When the positivity
\* assertion fails the loop has shifted the entries up to and including the
\* failing one; touched are the entries that were shifted.
NormalizeTo(rd, t0) ==
  LET pre  == t0 <= rd.initializedAt
      flat == ScPositions(SortedNames(DOMAIN rd.evData), rd.evData)
      new(k) == ShiftTimepoint(rd, t0,
                   rd.evData[flat[k][1]].stateChanges[flat[k][2]].t)
      bad  == {k \in 1 .. Len(flat) : new(k) <= 0}
      stop == IF ~pre THEN 0
              ELSE IF bad = {} THEN Len(flat)
              ELSE CHOOSE k \in bad : \A m \in bad : k <= m
      touched == {flat[k] : k \in 1 .. stop}
  IN  [ok      |-> pre /\ bad = {},
       touched |-> touched,
       rd      |-> [rd EXCEPT !.evData =
                      [n \in DOMAIN rd.evData |->
                         [rd.evData[n] EXCEPT !.stateChanges =
                            [i \in 1 .. Len(rd.evData[n].stateChanges) |->
                               IF <<n, i>> \in touched
                               THEN [label |-> rd.evData[n].stateChanges[i].label,
                                     t |-> ShiftTimepoint(rd, t0,
                                             rd.evData[n].stateChanges[i].t)]
                               ELSE rd.evData[n].stateChanges[i]]]]]]

\* Faulty variant of GetDuration: the running read in every state.
GetDurationRunning(rd, now) == now - rd.initializedAt

\* RankData::getDuration(), now being the reading of system_clock.
GetDuration(rd, now) ==
  IF rd.isFinalized THEN rd.finalizedAt - rd.initializedAt
  ELSE now - rd.initializedAt

-----------------------------------------------------------------------------
(* MPI: collectives and point-to-point messages *)

\* A collective call on comm completes for a rank when every rank has made
\* its call of the same index, and these are calls of the same collective.
CollectiveReady(r, kind) ==
  \A q \in Ranks : /\ Len(coll[q]) >= Len(coll[r])
                   /\ coll[q][Len(coll[r])].kind = kind

\* The values the ranks contributed to rank r's latest collective call.
Contributions(r) == [q \in Ranks |-> coll[q][Len(coll[r])].val]

\* Faulty variant of ReduceMin: MPI_MAX instead of MPI_MIN.
RECURSIVE ReduceMax(_, _)
ReduceMax(f, n) == IF n = 0 THEN f[0] ELSE Max2(f[n], ReduceMax(f, n - 1))

\* MPI_MIN over the contributions of ranks 0 .. n.
RECURSIVE ReduceMin(_, _)
ReduceMin(f, n) == IF n = 0 THEN f[0] ELSE Min2(f[n], ReduceMin(f, n - 1))

\* std::string::copy into char name[255]: at most 255 characters, and no
\* terminator is written.
CopyName(name) == SubSeq(name, 1, Min2(Len(name), NameBufSize))

\* std::string(ev.name) on the receiver: reads up to the first '\0'.  A
\* full buffer holds none, and the read runs on into whatever follows (0
\* stands for those characters).
CStrings(buf) ==
  IF Len(buf) < NameBufSize THEN {buf} ELSE {buf, buf \o <<0>>}

\* Faulty variant of TimesMsg: the two times in the other order.
TimesMsgSwapped(rd) ==
  [kind |-> "times", initializedAt |-> rd.finalizedAt,
   finalizedAt |-> rd.initializedAt]

\* The times record, and the header and packed payload of one event.
TimesMsg(rd) ==
  [kind |-> "times", initializedAt |-> rd.initializedAt,
   finalizedAt |-> rd.finalizedAt]

HeaderMsg(name, ed) ==
  [kind |-> "header", name |-> CopyName(name), count |-> ed.count,
   total |-> ToMs(ed.total), max |-> ToMs(ed.max), min |-> ToMs(ed.min),
   dataSize |-> Len(ed.data), stateChangesSize |-> Len(ed.stateChanges)]

PackedMsg(ed) ==
  [kind |-> "packed", data |-> ed.data, stateChanges |-> ed.stateChanges]

\* The send loop of collect over the events in map order.
RECURSIVE EventMsgs(_, _)
EventMsgs(names, evData) ==
  IF names = <<>> THEN <<>>
  ELSE <<HeaderMsg(Head(names), evData[Head(names)]),
         PackedMsg(evData[Head(names)])>>
       \o EventMsgs(Tail(names), evData)

\* Faulty variant of SendSequence: the times record is not sent.
SendSequenceWithoutTimes(rd) ==
  EventMsgs(SortedNames(DOMAIN rd.evData), rd.evData)

\* Everything one collect sends to rank 0, in send order.
SendSequence(rd) ==
  <<TimesMsg(rd)>> \o EventMsgs(SortedNames(DOMAIN rd.evData), rd.evData)

\* What MPI_Unpack can leave in recvStateChanges: the time_point of every
\* entry is copied as it is, the label object is a byte copy of an object
\* of the sender's address space.
UnpackedStateChanges(packed) ==
  {[i \in 1 .. Len(packed) |->
      [label |-> IF i \in bad THEN Corrupt ELSE packed[i].label,
       t |-> packed[i].t]] : bad \in SUBSET (1 .. Len(packed))}

\* EventData(ev.name, ev.count, ev.total, ev.max, ev.min, recvData,
\* recvStateChanges): the header's millisecond counts become durations.
ReceivedEventData(hdr, recvData, recvStateChanges) ==
  [count |-> hdr.count, total |-> FromMs(hdr.total),
   max |-> FromMs(hdr.max), min |-> FromMs(hdr.min),
   data |-> recvData, stateChanges |-> recvStateChanges]

\* MPI_Unpack of more items than the received buffer holds is an MPI error.
UnpackFails(hdr, m) ==
  \/ Len(m.data) < hdr.dataSize
  \/ Len(m.stateChanges) < hdr.stateChangesSize

\* What the receive loop builds from a header and the payload received
\* after it: ev.dataSize samples and ev.stateChangesSize state changes are
\* unpacked, whatever the size of the payload, and the name is read from
\* the header's buffer.
UnpackedEvents(hdr, m) ==
  {[name |-> name,
    ed   |-> ReceivedEventData(hdr, SubSeq(m.data, 1, hdr.dataSize), scs)] :
     name \in CStrings(hdr.name),
     scs \in UnpackedStateChanges(SubSeq(m.stateChanges, 1,
                                         hdr.stateChangesSize))}

NoHeader == [kind |-> "none"]
RcvIdle ==
  [i |-> 0, j |-> 0, phase |-> "off", eventsPerRank |-> [q \in Ranks |-> 0],
   data |-> NewRankData, ev |-> NoHeader]


-----------------------------------------------------------------------------
(* The registry of every rank *)

\* The components taken alone, when they are not the subject of the run.
SoloOff == [phase |-> "off"]
StatsOff == [phase |-> "off"]
WireOff == [phase |-> "off"]

InitWith(lim) ==
  /\ solo = SoloOff
  /\ stats = StatsOff
  /\ wire = WireOff
  /\ limit = lim
  /\ pc = [r \in Ranks |-> "idle"]
  /\ initialized = [r \in Ranks |-> FALSE]
  /\ localRankData = [r \in Ranks |-> NewRankData]
  /\ globalRankData = [r \in Ranks |-> <<>>]
  /\ chan = [r \in Ranks |-> <<>>]
  /\ coll = [r \in Ranks |-> <<>>]
  /\ rcv = RcvIdle
  /\ wall = 1
  /\ stdy = [r \in Ranks |-> 1]
  /\ calls = [r \in Ranks |-> [init |-> 0, fin |-> 0]]
  /\ nput = 0
  /\ scHist = [r \in Ranks |-> <<>>]
  /\ sentSnap = [r \in Ranks |-> <<>>]
  /\ lastNorm = [r \in Ranks |->
                   [n |-> 0, call |-> 0, t0 |-> 0, before |-> NewRankData,
                    after |-> NewRankData, ok |-> TRUE]]
  /\ recvFrom = <<>>

\* EventRegistry::initialize
Initialize(r) ==
  /\ pc[r] = "idle"
  /\ calls[r].init < limit.init
  /\ \E sysNow \in ClockReads(wall, MaxWall),
        stdyNow \in ClockReads(stdy[r], MaxTicks) :
        /\ localRankData' = [localRankData EXCEPT
                               ![r] = RankDataInitialize(@, sysNow, stdyNow)]
        /\ wall' = sysNow
        /\ stdy' = [stdy EXCEPT ![r] = stdyNow]
  /\ initialized' = [initialized EXCEPT ![r] = TRUE]
  /\ calls' = [calls EXCEPT ![r].init = @ + 1]
  /\ UNCHANGED <<units, limit, pc, globalRankData, chan, coll, rcv, nput,
                 scHist, sentSnap, lastNorm, recvFrom>>

\* The occurrences the event source hands to put on rank r: one without
\* sample data and state changes, and one with sample data and a state
\* change stamped with the reading now of the rank's steady clock.
Occurrences(now) ==
  {[name |-> n, duration |-> d, data |-> <<>>, stateChanges |-> <<>>] :
     n \in Names, d \in Durations}
  \cup
  {[name |-> n, duration |-> d, data |-> x,
    stateChanges |-> <<[label |-> l, t |-> now]>>] :
     n \in Names, d \in Durations, x \in DataChoices \ {<<>>}, l \in Labels}

\* EventRegistry::put
Put(r) ==
  /\ pc[r] = "idle"
  /\ nput < limit.put
  /\ \E now \in ClockReads(stdy[r], MaxTicks) :
       \E ev \in Occurrences(now) :
          /\ ev.stateChanges = <<>> => now = stdy[r]
          /\ stdy' = [stdy EXCEPT ![r] = now]
          /\ localRankData' = [localRankData EXCEPT ![r] = RankDataPut(@, ev)]
          /\ scHist' = [scHist EXCEPT ![r] =
               [n \in (DOMAIN @) \cup {ev.name} |->
                  (IF n \in DOMAIN @ THEN @[n] ELSE <<>>)
                  \o (IF n = ev.name
                      THEN [i \in 1 .. Len(ev.stateChanges) |->
                              [norm |-> 0, init |-> calls[r].init]]
                      ELSE <<>>)]]
  /\ nput' = nput + 1
  /\ UNCHANGED <<units, limit, pc, initialized, globalRankData, chan, coll, rcv,
                 wall, calls, sentSnap, lastNorm, recvFrom>>

\* EventRegistry::finalize up to its first blocking call: the closing
\* instants are stamped, then normalize() enters MPI_Allreduce if the
\* registry is initialized, and collect() is next otherwise.
FinalizeBegin(r) ==
  /\ pc[r] = "idle"
  /\ calls[r].fin < limit.fin
  /\ \E sysNow \in ClockReads(wall, MaxWall),
        stdyNow \in ClockReads(stdy[r], MaxTicks) :
        /\ localRankData' = [localRankData EXCEPT
                               ![r] = RankDataFinalize(@, sysNow, stdyNow)]
        /\ wall' = sysNow
        /\ stdy' = [stdy EXCEPT ![r] = stdyNow]
  /\ IF initialized[r]
     THEN /\ coll' = [coll EXCEPT ![r] =
                 Append(@, [kind |-> "allreduce",
                            val |-> localRankData[r].initializedAt])]
          /\ pc' = [pc EXCEPT ![r] = "normalize"]
     ELSE /\ coll' = coll
          /\ pc' = [pc EXCEPT ![r] = "collect"]
  /\ calls' = [calls EXCEPT ![r].fin = @ + 1]
  /\ UNCHANGED <<units, limit, initialized, globalRankData, chan, rcv, nput, scHist,
                 sentSnap, lastNorm, recvFrom>>

Finalize(r) == FinalizeBegin(r)

\* EventRegistry::signal_handler: finalize and printAll, if initialized.
SignalHandler(r) ==
  IF initialized[r]
  THEN FinalizeBegin(r)
  ELSE pc[r] = "idle" /\ UNCHANGED vars

\* EventRegistry::normalize, from the return of MPI_Allreduce: normalizeTo
\* the minimum of all ranks' initializedAt.  A failed assertion aborts.
Normalize(r) ==
  /\ pc[r] = "normalize"
  /\ CollectiveReady(r, "allreduce")
  /\ LET minTicks == ReduceMin(Contributions(r), N - 1)
         res == NormalizeTo(localRankData[r], minTicks)
     IN  /\ localRankData' = [localRankData EXCEPT ![r] = res.rd]
         /\ scHist' = [scHist EXCEPT ![r] =
              [n \in DOMAIN @ |->
                 [i \in 1 .. Len(@[n]) |->
                    IF <<n, i>> \in res.touched
                    THEN [@[n][i] EXCEPT !.norm = @ + 1] ELSE @[n][i]]]]
         /\ lastNorm' = [lastNorm EXCEPT ![r] =
              [n |-> @.n + 1, call |-> Len(coll[r]), t0 |-> minTicks,
               before |-> localRankData[r], after |-> res.rd, ok |-> res.ok]]
         /\ pc' = [pc EXCEPT ![r] = IF res.ok THEN "collect" ELSE "aborted"]
  /\ UNCHANGED <<units, limit, initialized, globalRankData, chan, coll, rcv, wall,
                 stdy, calls, nput, sentSnap, recvFrom>>

\* EventRegistry::collect: the call of MPI_Gather with the number of events.
CollectGather(r) ==
  /\ pc[r] = "collect"
  /\ coll' = [coll EXCEPT ![r] =
        Append(@, [kind |-> "gather",
                   val |-> Cardinality(DOMAIN localRankData[r].evData)])]
  /\ pc' = [pc EXCEPT ![r] = "gather"]
  /\ UNCHANGED <<units, limit, initialized, localRankData, globalRankData, chan,
                 rcv, wall, stdy, calls, nput, scHist, sentSnap, lastNorm,
                 recvFrom>>

\* EventRegistry::collect from the return of MPI_Gather (the root returns
\* when every rank has contributed) to the end of the send loop: the times
\* record and one header and one packed payload per event, all by MPI_Isend.
\* The assertion on the name length aborts.
CollectSend(r) ==
  /\ pc[r] = "gather"
  /\ r = 0 => CollectiveReady(r, "gather")
  /\ IF \E n \in DOMAIN localRankData[r].evData : Len(n) > NameBufSize
     THEN /\ pc' = [pc EXCEPT ![r] = "aborted"]
          /\ UNCHANGED <<chan, rcv, sentSnap>>
     ELSE /\ chan' = [chan EXCEPT ![r] = @ \o SendSequence(localRankData[r])]
          /\ sentSnap' = [sentSnap EXCEPT ![r] = Append(@, localRankData[r])]
          /\ pc' = [pc EXCEPT ![r] = IF r = 0 THEN "recv" ELSE "waitall"]
          /\ rcv' = IF r = 0
                    THEN [RcvIdle EXCEPT !.phase = "times",
                                         !.eventsPerRank = Contributions(r)]
                    ELSE rcv
  /\ UNCHANGED <<units, limit, initialized, localRankData, globalRankData, coll,
                 wall, stdy, calls, nput, scHist, lastNorm, recvFrom>>


\* Faulty variants of RecvSources: the ranks served in decreasing order, and
\* MPI_ANY_SOURCE.
RecvSourcesReversed == {N - 1 - rcv.i}
RecvAnySource == Ranks

\* The receive loop's sources: rank 0 receives from rank i only.
RecvSources == {rcv.i}

\* A receive that meets a message of another kind or size than the one it
\* names is an MPI error, and the default error handler aborts.
MpiError ==
  /\ pc' = [pc EXCEPT ![0] = "mpi_error"]
  /\ UNCHANGED <<units, limit, rcv, globalRankData, recvFrom>>

\* globalRankData.push_back(data) and the step of the outer loop over the
\* ranks; after the last rank the loop is left for MPI_Waitall.
PushBack(data, src) ==
  /\ globalRankData' = [globalRankData EXCEPT ![0] = Append(@, data)]
  /\ recvFrom' = Append(recvFrom, src)
  /\ IF rcv.i + 1 = N
     THEN /\ rcv' = RcvIdle
          /\ pc' = [pc EXCEPT ![0] = "waitall"]
     ELSE /\ rcv' = [rcv EXCEPT !.i = @ + 1, !.j = 0, !.phase = "times",
                                !.data = NewRankData, !.ev = NoHeader]
          /\ pc' = pc

\* MPI_Recv of rank i's initialized and finalized times.
RecvTimes ==
  /\ pc[0] = "recv"
  /\ rcv.phase = "times"
  /\ \E src \in RecvSources :
        /\ chan[src] # <<>>
        /\ chan' = [chan EXCEPT ![src] = Tail(@)]
        /\ LET m == Head(chan[src])
               data == [NewRankData EXCEPT !.initializedAt = m.initializedAt,
                                           !.finalizedAt = m.finalizedAt]
           IN  IF m.kind # "times" THEN MpiError
               ELSE IF rcv.eventsPerRank[rcv.i] = 0 THEN PushBack(data, src)
               ELSE /\ rcv' = [rcv EXCEPT !.data = data, !.phase = "header"]
                    /\ UNCHANGED <<pc, globalRankData, recvFrom>>
  /\ UNCHANGED <<units, limit, initialized, localRankData, coll, wall, stdy,
                 calls, nput, scHist, sentSnap, lastNorm>>

\* MPI_Recv of the header of rank i's next event.
RecvHeader ==
  /\ pc[0] = "recv"
  /\ rcv.phase = "header"
  /\ \E src \in RecvSources :
        /\ chan[src] # <<>>
        /\ chan' = [chan EXCEPT ![src] = Tail(@)]
        /\ LET m == Head(chan[src])
           IN  IF m.kind # "header" THEN MpiError
               ELSE /\ rcv' = [rcv EXCEPT !.ev = m, !.phase = "packed"]
                    /\ UNCHANGED <<pc, globalRankData, recvFrom>>
  /\ UNCHANGED <<units, limit, initialized, localRankData, coll, wall, stdy,
                 calls, nput, scHist, sentSnap, lastNorm>>

\* MPI_Probe, MPI_Recv and MPI_Unpack of the payload that follows the
\* header, then EventData(...) and addEventData; after the rank's last
\* event, push_back.
RecvPacked ==
  /\ pc[0] = "recv"
  /\ rcv.phase = "packed"
  /\ \E src \in RecvSources :
        /\ chan[src] # <<>>
        /\ chan' = [chan EXCEPT ![src] = Tail(@)]
        /\ LET m == Head(chan[src])
           IN  IF m.kind # "packed" \/ UnpackFails(rcv.ev, m)
               THEN MpiError
               ELSE \E u \in UnpackedEvents(rcv.ev, m) :
                      LET data == AddEventData(rcv.data, u.name, u.ed)
                      IN  IF rcv.j + 1 = rcv.eventsPerRank[rcv.i]
                          THEN PushBack(data, src)
                          ELSE /\ rcv' = [rcv EXCEPT !.data = data,
                                            !.j = @ + 1, !.phase = "header",
                                            !.ev = NoHeader]
                               /\ UNCHANGED <<pc, globalRankData, recvFrom>>
  /\ UNCHANGED <<units, limit, initialized, localRankData, coll, wall, stdy,
                 calls, nput, scHist, sentSnap, lastNorm>>

\* EventRegistry::collect from MPI_Waitall on the rank's own sends to the
\* end of finalize (initialized = false) and, for signal_handler, printAll.
\* A small message completes without its receive (eager send), so the wait
\* may end at any time.
WaitallDone(r) ==
  /\ pc[r] = "waitall"
  /\ pc' = [pc EXCEPT ![r] = "idle"]
  /\ initialized' = [initialized EXCEPT ![r] = FALSE]
  /\ UNCHANGED <<units, limit, localRankData, globalRankData, chan, coll, rcv, wall, stdy,
                 calls, nput, scHist, sentSnap, lastNorm, recvFrom>>

Next ==
  \/ \E r \in Ranks : Initialize(r)
  \/ \E r \in Ranks : Put(r)
  \/ \E r \in Ranks : Finalize(r)
  \/ \E r \in Ranks : SignalHandler(r)
  \/ \E r \in Ranks : Normalize(r)
  \/ \E r \in Ranks : CollectGather(r)
  \/ \E r \in Ranks : CollectSend(r)
  \/ RecvTimes
  \/ RecvHeader
  \/ RecvPacked
  \/ \E r \in Ranks : WaitallDone(r)

\* A run of the application with up to MaxPuts occurrences and one
\* initialize and one finalize on every rank.
Init == InitWith([put |-> MaxPuts, init |-> 1, fin |-> 1])
Spec == Init /\ [][Next]_vars

\* A run in which the application calls initialize and finalize (or
\* signal_handler) repeatedly.
InitLife == InitWith([put |-> 1, init |-> MaxInit, fin |-> MaxFinalize])
SpecLife == InitLife /\ [][Next]_vars

\* A run with one occurrence, one initialize and one finalize on every
\* rank, in which MPI makes progress: a collective returns once every rank
\* has called it, a receive returns once its message was sent, an MPI_Isend
\* completes once its message was received, and a process that is not
\* blocked in MPI goes on.  The application need not call anything.
Progress ==
  /\ \A r \in Ranks :
        /\ WF_vars(Normalize(r))
        /\ WF_vars(CollectGather(r))
        /\ WF_vars(CollectSend(r) /\ CollectiveReady(r, "gather"))
        /\ WF_vars(WaitallDone(r) /\ chan[r] = <<>>)
  /\ WF_vars(RecvTimes)
  /\ WF_vars(RecvHeader)
  /\ WF_vars(RecvPacked)

InitFair == InitWith([put |-> 1, init |-> 1, fin |-> 1])
SpecFair == InitFair /\ [][Next]_vars /\ Progress


-----------------------------------------------------------------------------
(* One process taken alone: its RankData as its registry drives it, the    *)
(* origin MPI_Allreduce hands to normalize being an input.                 *)

\* The durations, sample data and state changes of the occurrences.
SoloDurations == {500000, 1500000, 2500000}
SoloOccurrences(now) ==
  {[name |-> n, duration |-> d, data |-> <<>>, stateChanges |-> <<>>] :
     n \in Names, d \in SoloDurations}
  \cup
  {[name |-> n, duration |-> 1500000, data |-> <<7>>,
    stateChanges |-> <<[label |-> l, t |-> now]>>] :
     n \in Names, l \in Labels}
  \cup
  {[name |-> n, duration |-> 500000, data |-> <<8, 9>>,
    stateChanges |-> <<>>] : n \in Names}

\* What the member int rank of an EventData can hold: no constructor and
\* no other code initializes or assigns it.
IndeterminateRank == Ranks \cup {-1}

\* No getDuration() was called yet.
NoRead == [valid |-> FALSE, value |-> 0, now |-> 0, life |-> "new",
           initializedAt |-> 0, finalizedAt |-> 0]

\* lim: how many put, initialize and finalize calls the application makes.
InitSoloWith(lim) ==
  /\ pc = [r \in Ranks |-> "idle"]
  /\ initialized = [r \in Ranks |-> FALSE]
  /\ localRankData = [r \in Ranks |-> NewRankData]
  /\ globalRankData = [r \in Ranks |-> <<>>]
  /\ chan = [r \in Ranks |-> <<>>]
  /\ coll = [r \in Ranks |-> <<>>]
  /\ rcv = RcvIdle
  /\ wall = 1
  /\ stdy = [r \in Ranks |-> 1]
  /\ calls = [r \in Ranks |-> [init |-> 0, fin |-> 0]]
  /\ nput = 0
  /\ limit = [put |-> 0, init |-> 0, fin |-> 0]
  /\ scHist = [r \in Ranks |-> <<>>]
  /\ sentSnap = [r \in Ranks |-> <<>>]
  /\ lastNorm = [r \in Ranks |->
                   [n |-> 0, call |-> 0, t0 |-> 0, before |-> NewRankData,
                    after |-> NewRankData, ok |-> TRUE]]
  /\ recvFrom = <<>>
  /\ stats = StatsOff
  /\ wire = WireOff
  /\ \E r \in Ranks :
        solo = [phase |-> "on", limit |-> lim, myRank |-> r,
                rd |-> NewRankData,
                initialized |-> FALSE, aborted |-> FALSE,
                wall |-> 1, stdy |-> 1, rank |-> <<>>,
                \* history
                inits |-> 0, fins |-> 0, puts |-> 0, life |-> "new", log |-> <<>>,
                norm |-> <<>>, read |-> NoRead]

SoloRuns == solo.phase = "on" /\ ~solo.aborted

\* EventRegistry::initialize
SoloInitialize ==
  /\ SoloRuns
  /\ solo.inits < solo.limit.init
  /\ \E sysNow \in ClockReads(solo.wall, MaxWall),
        stdyNow \in ClockReads(solo.stdy, MaxTicks) :
        solo' = [solo EXCEPT
                   !.rd = RankDataInitialize(@, sysNow, stdyNow),
                   !.wall = sysNow, !.stdy = stdyNow,
                   !.initialized = TRUE,
                   !.inits = @ + 1, !.life = "running"]
  /\ UNCHANGED <<registry, stats, wire>>

\* EventRegistry::put.  A newly constructed EventData holds an
\* indeterminate rank.
SoloPut ==
  /\ SoloRuns
  /\ solo.puts < solo.limit.put
  /\ \E now \in ClockReads(solo.stdy, MaxTicks) :
       \E ev \in SoloOccurrences(now), rk \in IndeterminateRank :
          /\ ev.stateChanges = <<>> => now = solo.stdy
          /\ ev.name \in DOMAIN solo.rank => rk = solo.rank[ev.name]
          /\ LET names == (DOMAIN solo.log) \cup {ev.name}
                 old(f, n) == IF n \in DOMAIN f THEN f[n] ELSE <<>>
             IN  solo' = [solo EXCEPT
                   !.rd = RankDataPut(@, ev),
                   !.stdy = now,
                   !.puts = @ + 1,
                   !.rank = [n \in names |->
                               IF n \in DOMAIN @ THEN @[n] ELSE rk],
                   !.log = [n \in names |->
                              old(@, n) \o (IF n = ev.name THEN <<ev>>
                                            ELSE <<>>)],
                   !.norm = [n \in names |->
                               old(@, n) \o
                               (IF n = ev.name
                                THEN [i \in 1 .. Len(ev.stateChanges) |-> 0]
                                ELSE <<>>)]]
  /\ UNCHANGED <<registry, stats, wire>>

\* EventRegistry::finalize: RankData::finalize, then, if initialized,
\* normalize() with the origin t0 that MPI_Allreduce returns, which is at
\* most this process's initializedAt; collect() leaves localRankData as it
\* is.  A failed assertion aborts.
SoloFinalize ==
  /\ SoloRuns
  /\ solo.fins < solo.limit.fin
  /\ \E sysNow \in ClockReads(solo.wall, MaxWall),
        stdyNow \in ClockReads(solo.stdy, MaxTicks) :
        LET fin == RankDataFinalize(solo.rd, sysNow, stdyNow)
            base == [solo EXCEPT !.wall = sysNow, !.stdy = stdyNow,
                                 !.initialized = FALSE,
                                 !.fins = @ + 1, !.life = "finalized"]
        IN  IF ~solo.initialized
            THEN solo' = [base EXCEPT !.rd = fin]
            ELSE \E t0 \in 1 .. fin.initializedAt :
                   LET res == NormalizeTo(fin, t0)
                   IN  solo' = [base EXCEPT
                         !.rd = res.rd,
                         !.aborted = ~res.ok,
                         !.initialized = IF res.ok THEN FALSE ELSE TRUE,
                         !.norm = [n \in DOMAIN @ |->
                                     [i \in 1 .. Len(@[n]) |->
                                        IF <<n, i>> \in res.touched
                                        THEN @[n][i] + 1 ELSE @[n][i]]]]
  /\ UNCHANGED <<registry, stats, wire>>

\* RankData::getDuration(), as writeTimings calls it.
SoloGetDuration ==
  /\ SoloRuns
  /\ \E now \in ClockReads(solo.wall, MaxWall) :
        solo' = [solo EXCEPT
                   !.wall = now,
                   !.read = [valid |-> TRUE,
                             value |-> GetDuration(solo.rd, now),
                             now |-> now, life |-> solo.life,
                             initializedAt |-> solo.rd.initializedAt,
                             finalizedAt |-> solo.rd.finalizedAt]]
  /\ UNCHANGED <<registry, stats, wire>>

\* A run of MaxMerges occurrences between one initialize and one finalize.
NextSolo ==
  \/ SoloInitialize
  \/ SoloPut
  \/ SoloFinalize

InitSolo == InitSoloWith([put |-> MaxMerges, init |-> 1, fin |-> 1])
SpecSolo == InitSolo /\ [][NextSolo]_vars

\* A run in which the application calls initialize and finalize
\* repeatedly and reads the duration at any time.
NextSoloLife ==
  \/ SoloInitialize
  \/ SoloPut
  \/ SoloFinalize
  \/ SoloGetDuration

InitSoloLife ==
  InitSoloWith([put |-> 1, init |-> MaxInit, fin |-> MaxFinalize])
SpecSoloLife == InitSoloLife /\ [][NextSoloLife]_vars

-----------------------------------------------------------------------------
(* getGlobalStats *)

\* A value-initialized GlobalEventStats, as std::map::operator[] inserts it.
NewGlobalEventStats ==
  [maxRank |-> 0, minRank |-> 0, max |-> DurationMin, min |-> DurationMax]

\* Faulty variants of UpdateStats: the minimum is not tracked; and the
\* comparisons are >= and <=, so that the last rank wins a tie.
UpdateStatsMaxOnly(st, event, rank) ==
  IF event.max > st.max
  THEN [st EXCEPT !.max = event.max, !.maxRank = rank] ELSE st
UpdateStatsLastWins(st, event, rank) ==
  LET a == IF event.max >= st.max
           THEN [st EXCEPT !.max = event.max, !.maxRank = rank] ELSE st
  IN  IF event.min <= a.min
      THEN [a EXCEPT !.min = event.min, !.minRank = rank] ELSE a

\* The body of the loops of getGlobalStats for one event of one rank.
UpdateStats(st, event, rank) ==
  LET a == IF event.max > st.max
           THEN [st EXCEPT !.max = event.max, !.maxRank = rank] ELSE st
  IN  IF event.min < a.min
      THEN [a EXCEPT !.min = event.min, !.minRank = rank] ELSE a

\* globalStats[name] after the outer loop has passed the first k entries
\* of events; entry k of the sequence is rank k - 1 of the vector.
RECURSIVE StatsUpTo(_, _, _)
StatsUpTo(events, name, k) ==
  IF k = 0 THEN NewGlobalEventStats
  ELSE LET prev == StatsUpTo(events, name, k - 1)
       IN  IF name \in DOMAIN events[k].evData
           THEN UpdateStats(prev, events[k].evData[name], k - 1)
           ELSE prev

\* getGlobalStats(events)
GetGlobalStats(events) ==
  [name \in UNION {DOMAIN events[k].evData : k \in 1 .. Len(events)} |->
     StatsUpTo(events, name, Len(events))]

\* The EventData the coordinator holds for a name of a rank: max and min
\* are whole milliseconds, as the headers carry them.
StatsEventData ==
  {[count |-> 2, total |-> FromMs(x[1] + x[2]), max |-> FromMs(x[1]),
    min |-> FromMs(x[2]), data |-> <<>>, stateChanges |-> <<>>] :
     x \in {<<0, 0>>, <<10, 10>>, <<30, 30>>, <<50, 50>>, <<50, 10>>}}
StatsRankData ==
  UNION {{[NewRankData EXCEPT !.evData = f] : f \in [S -> StatsEventData]}
           : S \in SUBSET Names}

InitStats ==
  /\ pc = [r \in Ranks |-> "idle"]
  /\ initialized = [r \in Ranks |-> FALSE]
  /\ localRankData = [r \in Ranks |-> NewRankData]
  /\ globalRankData = [r \in Ranks |-> <<>>]
  /\ chan = [r \in Ranks |-> <<>>]
  /\ coll = [r \in Ranks |-> <<>>]
  /\ rcv = RcvIdle
  /\ wall = 1
  /\ stdy = [r \in Ranks |-> 1]
  /\ calls = [r \in Ranks |-> [init |-> 0, fin |-> 0]]
  /\ nput = 0
  /\ limit = [put |-> 0, init |-> 0, fin |-> 0]
  /\ scHist = [r \in Ranks |-> <<>>]
  /\ sentSnap = [r \in Ranks |-> <<>>]
  /\ lastNorm = [r \in Ranks |->
                   [n |-> 0, call |-> 0, t0 |-> 0, before |-> NewRankData,
                    after |-> NewRankData, ok |-> TRUE]]
  /\ recvFrom = <<>>
  /\ solo = SoloOff
  /\ wire = WireOff
  /\ \E events \in [1 .. MaxEntries -> StatsRankData] :
        stats = [phase |-> "input", events |-> events, result |-> <<>>,
                 rows |-> <<>>]

\* printGlobalStats: auto stats = getGlobalStats(globalRankData)
StatsCompute ==
  /\ stats.phase = "input"
  /\ stats' = [stats EXCEPT !.phase = "done",
                            !.result = GetGlobalStats(stats.events)]
  /\ UNCHANGED <<registry, solo, wire>>

\* The quotient a / b of two tick counts as a fraction in lowest terms.
RECURSIVE Gcd(_, _)
Gcd(a, b) == IF b = 0 THEN a ELSE Gcd(b, a % b)
Quotient(a, b) ==
  LET g == Gcd(IF a < 0 THEN -a ELSE a, IF b < 0 THEN -b ELSE b)
  IN  [divided |-> TRUE, num |-> a \div g, den |-> b \div g]

\* Faulty variant of MinMaxRatio: max / min.
MaxMinRatio(ev) ==
  IF ev.max # 0 THEN Quotient(ev.max, ev.min)
  ELSE [divided |-> FALSE, num |-> 0, den |-> 1]

\* double rel = 0; if (ev.max != zero) rel = double(ev.min.count()) /
\* ev.max.count();
MinMaxRatio(ev) ==
  IF ev.max # 0 THEN Quotient(ev.min, ev.max)
  ELSE [divided |-> FALSE, num |-> 0, den |-> 1]

\* printGlobalStats: one row per entry of stats, with the ratio rel.
StatsPrintRows ==
  /\ stats.phase = "done"
  /\ stats' = [stats EXCEPT
                 !.phase = "printed",
                 !.rows = [name \in DOMAIN stats.result |->
                             [max |-> stats.result[name].max,
                              maxRank |-> stats.result[name].maxRank,
                              min |-> stats.result[name].min,
                              minRank |-> stats.result[name].minRank,
                              rel |-> MinMaxRatio(stats.result[name])]]]
  /\ UNCHANGED <<registry, solo, wire>>

NextStats ==
  \/ StatsCompute
  \/ StatsPrintRows
SpecStats == InitStats /\ [][NextStats]_vars

-----------------------------------------------------------------------------
(* One event of one rank on its way through collect: the body of the send  *)
(* loop, the two messages, and the body of the receive loop.               *)

\* Event names of 1, 254, 255 and 256 characters.
NameOfLength(k) == [i \in 1 .. k |-> 1]
WireNames ==
  {NameOfLength(1), NameOfLength(NameBufSize - 1), NameOfLength(NameBufSize),
   NameOfLength(NameBufSize + 1)}

\* The EventData a rank holds after one put.
WireEventData ==
  {EventDataPut(NewEventData,
                [name |-> <<>>, duration |-> 1500000, data |-> x,
                 stateChanges |-> scs]) :
     x \in {<<>>, <<7>>, <<8, 9>>},
     scs \in {<<>>, <<[label |-> "STARTED", t |-> 1]>>,
              <<[label |-> "STARTED", t |-> 1],
                [label |-> "STARTED", t |-> 2]>>}}

InitWire ==
  /\ pc = [r \in Ranks |-> "idle"]
  /\ initialized = [r \in Ranks |-> FALSE]
  /\ localRankData = [r \in Ranks |-> NewRankData]
  /\ globalRankData = [r \in Ranks |-> <<>>]
  /\ chan = [r \in Ranks |-> <<>>]
  /\ coll = [r \in Ranks |-> <<>>]
  /\ rcv = RcvIdle
  /\ wall = 1
  /\ stdy = [r \in Ranks |-> 1]
  /\ calls = [r \in Ranks |-> [init |-> 0, fin |-> 0]]
  /\ nput = 0
  /\ limit = [put |-> 0, init |-> 0, fin |-> 0]
  /\ scHist = [r \in Ranks |-> <<>>]
  /\ sentSnap = [r \in Ranks |-> <<>>]
  /\ lastNorm = [r \in Ranks |->
                   [n |-> 0, call |-> 0, t0 |-> 0, before |-> NewRankData,
                    after |-> NewRankData, ok |-> TRUE]]
  /\ recvFrom = <<>>
  /\ solo = SoloOff
  /\ stats = StatsOff
  /\ \E name \in WireNames, ed \in WireEventData :
        wire = [phase |-> "held", name |-> name, ed |-> ed,
                hdr |-> NoHeader, payload |-> NoHeader, altered |-> FALSE,
                data |-> NewRankData]

\* The body of the send loop: the assertion on the name, the header and
\* the packed payload, and the two MPI_Isend.
WireSend ==
  /\ wire.phase = "held"
  /\ wire' = IF Len(wire.name) > NameBufSize
             THEN [wire EXCEPT !.phase = "aborted"]
             ELSE [wire EXCEPT !.phase = "sent",
                               !.hdr = HeaderMsg(wire.name, wire.ed),
                               !.payload = PackedMsg(wire.ed)]
  /\ UNCHANGED <<registry, solo, stats>>

\* A payload whose size is not the one its header declares: it reaches
\* the coordinator without its last state change, or with one more.
WireAlter ==
  /\ wire.phase = "sent"
  /\ ~wire.altered
  /\ LET scs == wire.payload.stateChanges
     IN  \E got \in {Append(scs, [label |-> "STARTED", t |-> 3])}
                    \cup (IF scs = <<>> THEN {}
                          ELSE {SubSeq(scs, 1, Len(scs) - 1)}) :
            wire' = [wire EXCEPT !.altered = TRUE,
                                 !.payload.stateChanges = got]
  /\ UNCHANGED <<registry, solo, stats>>

\* The body of the receive loop: MPI_Recv of the header, MPI_Probe,
\* MPI_Recv and MPI_Unpack of the payload, EventData(...), addEventData.
WireRecv ==
  /\ wire.phase = "sent"
  /\ IF UnpackFails(wire.hdr, wire.payload)
     THEN wire' = [wire EXCEPT !.phase = "mpi_error"]
     ELSE \E u \in UnpackedEvents(wire.hdr, wire.payload) :
            wire' = [wire EXCEPT
                       !.phase = "received",
                       !.data = AddEventData(NewRankData, u.name, u.ed)]
  /\ UNCHANGED <<registry, solo, stats>>

NextWire ==
  \/ WireSend
  \/ WireAlter
  \/ WireRecv

SpecWire == InitWire /\ [][NextWire]_vars

-----------------------------------------------------------------------------
(* Properties of the collection protocol *)

\* Entry k of rank 0's globalRankData was pushed by the collect of round
\* EntryRound(k) while the receive loop was at rank EntryRank(k).
EntryRound(k) == ((k - 1) \div N) + 1
EntryRank(k) == (k - 1) % N

\* The RankData rank q handed to its collect of that round, if any.
HasSent(q, round) == round >= 1 /\ Len(sentSnap[q]) >= round
Sent(q, round) == sentSnap[q][round]

\* g carries the timestamps of s and, of every event of s, everything the
\* header and payload transport: the count, the durations in whole
\* milliseconds, the samples and the time of every state change.
Reconstructs(g, s) ==
  /\ g.initializedAt = s.initializedAt
  /\ g.finalizedAt = s.finalizedAt
  /\ DOMAIN g.evData = DOMAIN s.evData
  /\ \A n \in (DOMAIN g.evData) \cap (DOMAIN s.evData) :
        /\ g.evData[n].count = s.evData[n].count
        /\ g.evData[n].total = (s.evData[n].total \div 1000000) * 1000000
        /\ g.evData[n].max = (s.evData[n].max \div 1000000) * 1000000
        /\ g.evData[n].min = (s.evData[n].min \div 1000000) * 1000000
        /\ g.evData[n].data = s.evData[n].data
        /\ Len(g.evData[n].stateChanges) = Len(s.evData[n].stateChanges)
        /\ \A i \in 1 .. Len(s.evData[n].stateChanges) :
              i <= Len(g.evData[n].stateChanges) =>
                g.evData[n].stateChanges[i].t = s.evData[n].stateChanges[i].t

\* C1 (as claimed): after collect, every EventData of the coordinator's
\* globalRankData equals the sender's EventData field for field: name,
\* count, total, max, min, sample data and state changes.
C1_RoundTripFieldForField ==
  \A k \in 1 .. Len(globalRankData[0]) :
     HasSent(EntryRank(k), EntryRound(k)) =>
       globalRankData[0][k].evData = Sent(EntryRank(k), EntryRound(k)).evData

AllFinalizedOnce == \A r \in Ranks : calls[r].fin = 1 /\ pc[r] = "idle"

\* C2: when every rank has completed one finalize(), rank 0's
\* globalRankData has exactly N entries, entry i holds the timestamps and
\* the events rank i sent, and globalRankData of every other rank is empty.
C2_OneEntryPerRank ==
  AllFinalizedOnce =>
    /\ Len(globalRankData[0]) = N
    /\ \A i \in Ranks :
          /\ HasSent(i, 1)
          /\ i + 1 <= Len(globalRankData[0])
               => Reconstructs(globalRankData[0][i + 1], Sent(i, 1))
    /\ \A r \in Ranks \ {0} : globalRankData[r] = <<>>

\* C2 witness: every rank has completed one finalize, the ranks were
\* initialized at different instants and one of them sent two events.
C2_Witness ==
  /\ AllFinalizedOnce
  /\ Len(globalRankData[0]) = N
  /\ globalRankData[0][1].initializedAt # globalRankData[0][2].initializedAt
  /\ \E k \in 1 .. N : Cardinality(DOMAIN globalRankData[0][k].evData) = 2

\* C3 (as claimed): over any sequence of initialize, put, finalize and
\* signal_handler calls, rank 0's globalRankData never holds more than N
\* entries and entry i comes from rank i.
C3_PopulatedOnce ==
  /\ Len(globalRankData[0]) <= N
  /\ \A k \in 1 .. Len(recvFrom) : recvFrom[k] = k - 1


IsPrefix(a, b) == Len(a) <= Len(b) /\ SubSeq(b, 1, Len(a)) = a

\* How many messages of rank rcv.i the receive loop has consumed.
Consumed ==
  CASE rcv.phase = "times"  -> 0
    [] rcv.phase = "header" -> 1 + 2 * rcv.j
    [] rcv.phase = "packed" -> 2 + 2 * rcv.j
    [] OTHER                -> 0

\* C4: while rank 0 receives, the ranks before rcv.i are served, the ranks
\* after it are untouched, and of rank rcv.i exactly the first Consumed
\* messages of its send sequence are taken, the rest waiting in send order;
\* eventsPerRank is the number of its header and payload pairs; the header
\* held while the payload is awaited is the message sent just before that
\* payload.  No receive meets a message of another kind.
C4_ReceiveOrder ==
  /\ pc[0] # "mpi_error"
  /\ pc[0] = "recv" =>
       \A q \in Ranks :
          HasSent(q, Len(sentSnap[0])) =>
            LET seq  == SendSequence(Sent(q, Len(sentSnap[0])))
                done == IF q < rcv.i THEN Len(seq)
                        ELSE IF q > rcv.i THEN 0 ELSE Consumed
            IN  /\ done <= Len(seq)
                /\ IsPrefix(SubSeq(seq, done + 1, Len(seq)), chan[q])
                /\ q = rcv.i =>
                     /\ 1 + 2 * rcv.eventsPerRank[q] = Len(seq)
                     /\ rcv.phase = "packed" =>
                          done >= 1 /\ done <= Len(seq) /\ rcv.ev = seq[done]

\* C4 witness: rank 0 awaits the payload of the second event of rank 1.
C4_Witness ==
  /\ pc[0] = "recv"
  /\ rcv.i = 1
  /\ rcv.j = 1
  /\ rcv.phase = "packed"
  /\ chan[1] # <<>>

\* C5: whatever the interleaving of the ranks' sends, every entry of rank
\* 0's globalRankData is reconstructed from the messages of one rank and
\* one collect: entry k from those of rank EntryRank(k).
C5_OrderIndependent ==
  \A k \in 1 .. Len(globalRankData[0]) :
     /\ HasSent(EntryRank(k), EntryRound(k))
     /\ HasSent(EntryRank(k), EntryRound(k)) =>
          Reconstructs(globalRankData[0][k], Sent(EntryRank(k), EntryRound(k)))

\* C5 witness: rank 1 has sent the messages of its second collect while
\* rank 0 is still receiving those of the first, rank 0's own served.
C5_Witness ==
  /\ pc[0] = "recv"
  /\ Len(sentSnap[0]) = 1
  /\ Len(sentSnap[1]) = 2
  /\ rcv.i = 1
  /\ Len(globalRankData[0]) = 1
  /\ Len(chan[1]) > Len(SendSequence(Sent(1, 1)))

-----------------------------------------------------------------------------
(* Properties of normalization *)

SentUnshifted(r) ==
  \E n \in DOMAIN scHist[r] :
     \E i \in 1 .. Len(scHist[r][n]) : scHist[r][n][i].norm = 0

\* C6 (as claimed): in every finalize, the state-change timestamps a rank
\* is about to send in collect have been shifted by normalizeTo.
C6_AlwaysNormalizedBeforeCollect ==
  \A r \in Ranks : pc[r] \in {"collect", "gather"} => ~SentUnshifted(r)

\* C6 (amended): in every finalize of an initialized registry, the
\* state-change timestamps a rank is about to send in collect have been
\* shifted by normalizeTo.
C6_NormalizedBeforeCollect ==
  \A r \in Ranks :
     (pc[r] \in {"collect", "gather"} /\ initialized[r]) => ~SentUnshifted(r)

\* C6 witness: an initialized rank is about to send a state change that
\* normalizeTo has shifted by a delta that is not zero.
C6_Witness ==
  \E r \in Ranks :
     /\ pc[r] = "gather"
     /\ initialized[r]
     /\ lastNorm[r].before.initializedAt > lastNorm[r].t0
     /\ \E n \in DOMAIN scHist[r] :
           \E i \in 1 .. Len(scHist[r][n]) : scHist[r][n][i].norm = 1

\* C7 (as claimed): over any sequence of initialize, put, finalize and
\* signal_handler calls, normalizeTo shifts a recorded state-change
\* timestamp at most once, and only a finalized snapshot is normalized.
C7_NormalizedAtMostOnce ==
  \A r \in Ranks :
     /\ lastNorm[r].n > 0 => lastNorm[r].before.isFinalized
     /\ \A n \in DOMAIN scHist[r] :
           \A i \in 1 .. Len(scHist[r][n]) : scHist[r][n][i].norm <= 1


\* What rank q contributed to the MPI_Allreduce of rank r's latest normalize.
OriginInput(r, q) == coll[q][lastNorm[r].call].val

\* C8: the origin of every normalize is at most every rank's initializedAt
\* and is the initializedAt of some rank, so that delta = initializedAt -
\* origin is never negative, the precondition of normalizeTo holds, and
\* delta is zero on at least one rank.
C8_OriginIsMinimum ==
  \A r \in Ranks :
     lastNorm[r].n > 0 =>
       /\ \A q \in Ranks :
             /\ lastNorm[r].call <= Len(coll[q])
             /\ lastNorm[r].call <= Len(coll[q])
                  => lastNorm[r].t0 <= OriginInput(r, q)
       /\ \E q \in Ranks :
             /\ lastNorm[r].call <= Len(coll[q])
             /\ OriginInput(r, q) = lastNorm[r].t0
       /\ lastNorm[r].call <= Len(coll[r])
            => OriginInput(r, r) = lastNorm[r].before.initializedAt
       /\ lastNorm[r].before.initializedAt - lastNorm[r].t0 >= 0

\* C8 witness: two ranks have normalized to the same origin, one with a
\* positive delta and one with delta zero.
C8_Witness ==
  \E r, q \in Ranks :
     /\ lastNorm[r].n > 0
     /\ lastNorm[q].n > 0
     /\ lastNorm[r].t0 = lastNorm[q].t0
     /\ lastNorm[r].before.initializedAt > lastNorm[r].t0
     /\ lastNorm[q].before.initializedAt = lastNorm[q].t0

\* C9: a normalizeTo(origin) that returns has replaced every state-change
\* timestamp t by t - initializedAtTicks + (initializedAt - origin) and has
\* changed nothing else; with origin = initializedAt the shift is
\* -initializedAtTicks, and the order of the timestamps is kept.
C9_NormalizeToShifts ==
  \A r \in Ranks :
     (lastNorm[r].n > 0 /\ lastNorm[r].ok) =>
       LET old == lastNorm[r].before
           new == lastNorm[r].after
           t0  == lastNorm[r].t0
       IN  /\ [new EXCEPT !.evData = <<>>] = [old EXCEPT !.evData = <<>>]
           /\ DOMAIN new.evData = DOMAIN old.evData
           /\ \A n \in (DOMAIN old.evData) \cap (DOMAIN new.evData) :
                 LET osc == old.evData[n].stateChanges
                     nsc == new.evData[n].stateChanges
                 IN  /\ [new.evData[n] EXCEPT !.stateChanges = <<>>]
                          = [old.evData[n] EXCEPT !.stateChanges = <<>>]
                     /\ Len(nsc) = Len(osc)
                     /\ \A i \in 1 .. Len(osc) :
                           i <= Len(nsc) =>
                             /\ nsc[i].label = osc[i].label
                             /\ nsc[i].t = osc[i].t - old.initializedAtTicks
                                             + (old.initializedAt - t0)
                             /\ t0 = old.initializedAt =>
                                  nsc[i].t = osc[i].t - old.initializedAtTicks
                             /\ \A j \in 1 .. Len(osc) :
                                   j <= Len(nsc) =>
                                     ((osc[i].t <= osc[j].t)
                                        <=> (nsc[i].t <= nsc[j].t))

\* C9 witness: a normalizeTo with a positive delta has returned on a rank
\* that holds two state changes recorded at different instants.
C9_Witness ==
  \E r \in Ranks :
     /\ lastNorm[r].n > 0
     /\ lastNorm[r].ok
     /\ lastNorm[r].before.initializedAt > lastNorm[r].t0
     /\ \E n \in DOMAIN lastNorm[r].before.evData :
           LET osc == lastNorm[r].before.evData[n].stateChanges
           IN  Len(osc) = 2 /\ osc[1].t # osc[2].t

\* C10 (as claimed): a state change recorded after initialize() and
\* shifted by one normalizeTo(origin) with origin <= initializedAt has a
\* strictly positive timestamp, so the positivity assertion does not fail
\* on a first normalization.
C10_FirstNormalizePositive ==
  \A r \in Ranks :
     \A n \in DOMAIN scHist[r] :
        \A i \in 1 .. Len(scHist[r][n]) :
           ( /\ scHist[r][n][i].norm = 1
             /\ scHist[r][n][i].init = calls[r].init
             /\ calls[r].init >= 1
             /\ lastNorm[r].t0 <= lastNorm[r].before.initializedAt )
           => /\ localRankData[r].evData[n].stateChanges[i].t > 0
              /\ pc[r] # "aborted"

-----------------------------------------------------------------------------
(* Properties of one process's RankData and EventData *)

SoloOn == solo.phase = "on"

\* C11 (as claimed): a state-change timestamp that normalizeTo shifts a
\* second time trips the positivity assertion: no timestamp is shifted
\* twice while the process runs on.
C11_SecondNormalizeDetected ==
  SoloOn =>
    \A n \in DOMAIN solo.norm :
       \A i \in 1 .. Len(solo.norm[n]) :
          solo.norm[n][i] >= 2 => solo.aborted

\* The occurrences of a log folded as the claim states it.
RECURSIVE SumOfDurations(_)
SumOfDurations(log) ==
  IF log = <<>> THEN 0 ELSE Head(log).duration + SumOfDurations(Tail(log))
LargestDuration(log) ==
  CHOOSE d \in {log[i].duration : i \in 1 .. Len(log)} :
     \A i \in 1 .. Len(log) : log[i].duration <= d
SmallestDuration(log) ==
  CHOOSE d \in {log[i].duration : i \in 1 .. Len(log)} :
     \A i \in 1 .. Len(log) : log[i].duration >= d
RECURSIVE DataInOrder(_)
DataInOrder(log) ==
  IF log = <<>> THEN <<>> ELSE Head(log).data \o DataInOrder(Tail(log))
RECURSIVE StateChangesInOrder(_)
StateChangesInOrder(log) ==
  IF log = <<>> THEN <<>>
  ELSE Head(log).stateChanges \o StateChangesInOrder(Tail(log))

\* C12: the EventData of every name holds the fold of the occurrences
\* merged under that name: count their number, total the sum of their
\* durations, max and min the largest and the smallest duration, data and
\* stateChanges the concatenation of theirs in merge order (the timestamps
\* as recorded until normalizeTo shifts them).
C12_MergeIsFold ==
  SoloOn =>
    /\ DOMAIN solo.rd.evData = DOMAIN solo.log
    /\ \A n \in (DOMAIN solo.rd.evData) \cap (DOMAIN solo.log) :
          LET ed  == solo.rd.evData[n]
              log == solo.log[n]
              scs == StateChangesInOrder(log)
          IN  /\ Len(log) >= 1
              /\ ed.count = Len(log)
              /\ ed.total = SumOfDurations(log)
              /\ Len(log) >= 1 => ed.max = LargestDuration(log)
              /\ Len(log) >= 1 => ed.min = SmallestDuration(log)
              /\ ed.data = DataInOrder(log)
              /\ Len(ed.stateChanges) = Len(scs)
              /\ \A i \in 1 .. Len(scs) :
                    i <= Len(ed.stateChanges) =>
                      /\ ed.stateChanges[i].label = scs[i].label
                      /\ (i <= Len(solo.norm[n]) /\ solo.norm[n][i] = 0)
                           => ed.stateChanges[i].t = scs[i].t

\* C12 witness: three occurrences of different durations were merged under
\* one name, the second with one sample and the first with two.
C12_Witness ==
  /\ SoloOn
  /\ \E n \in DOMAIN solo.rd.evData :
        /\ solo.rd.evData[n].count = 3
        /\ solo.rd.evData[n].data = <<8, 9, 7>>
        /\ solo.rd.evData[n].min = 500000
        /\ solo.rd.evData[n].max = 2500000
        /\ solo.rd.evData[n].total = 4500000
        /\ Len(solo.rd.evData[n].stateChanges) = 1

\* C19 (as claimed): every EventData that RankData::put created carries
\* in its member rank the rank of the process that created it.
C19_CarriesOwnRank ==
  SoloOn => \A n \in DOMAIN solo.rank : solo.rank[n] = solo.myRank

\* C20: getDuration() returns finalizedAt - initializedAt when the latest
\* of initialize() and finalize() was finalize(), whatever the time of the
\* call, and now - initializedAt when it was initialize(), also when
\* a finalize() preceded that initialize().
C20_GetDuration ==
  (SoloOn /\ solo.read.valid) =>
    /\ solo.read.life = "finalized" =>
         solo.read.value = solo.read.finalizedAt - solo.read.initializedAt
    /\ solo.read.life = "running" =>
         solo.read.value = solo.read.now - solo.read.initializedAt

\* C20 witness: the duration was read, later than the finalize, after the
\* initialize that followed a finalize.
C20_Witness ==
  /\ SoloOn
  /\ solo.read.valid
  /\ solo.read.life = "running"
  /\ solo.fins >= 1
  /\ solo.read.now > solo.read.finalizedAt
  /\ solo.read.value > 0

\* Every EventData a process holds: those of its localRankData and those
\* of the entries of its globalRankData.
HeldEventData ==
  UNION {{localRankData[r].evData[n] : n \in DOMAIN localRankData[r].evData}
           : r \in Ranks}
  \cup
  UNION {UNION {{globalRankData[r][k].evData[n] :
                    n \in DOMAIN globalRankData[r][k].evData}
                  : k \in 1 .. Len(globalRankData[r])}
           : r \in Ranks}

\* EventData::getAvg(): duration_cast<milliseconds>(total) / count.
GetAvg(ed) == ToMs(ed.total) \div ed.count

\* C13 (as claimed): every EventData with count >= 1 satisfies
\* min <= total / count <= max, in durations and in the milliseconds of
\* getMin, getAvg and getMax.
C13_MinAvgMax ==
  \A ed \in HeldEventData :
     ed.count >= 1 =>
       /\ ed.min <= ed.total \div ed.count
       /\ ed.total \div ed.count <= ed.max
       /\ ToMs(ed.min) <= GetAvg(ed)
       /\ GetAvg(ed) <= ToMs(ed.max)

\* C14: a put changes the RankData of one rank only, and there the entry
\* of one name only: that entry's count is one more than before, or one
\* if the name had no entry, and every other entry and every other member
\* is as before.
C14_PutFrame ==
  [][nput' # nput =>
       \E r \in Ranks, n \in Names :
          LET old == localRankData[r]
              new == localRankData'[r]
          IN  /\ \A q \in Ranks \ {r} : localRankData'[q] = localRankData[q]
              /\ [new EXCEPT !.evData = <<>>] = [old EXCEPT !.evData = <<>>]
              /\ DOMAIN new.evData = (DOMAIN old.evData) \cup {n}
              /\ n \in DOMAIN new.evData =>
                    new.evData[n].count =
                      IF n \in DOMAIN old.evData
                      THEN old.evData[n].count + 1 ELSE 1
              /\ \A m \in (DOMAIN old.evData) \ {n} :
                    m \in DOMAIN new.evData => new.evData[m] = old.evData[m]
  ]_vars

\* C14 witness: after two puts under different names a rank holds two
\* entries with count 1 each.
C14_Witness ==
  /\ nput = 2
  /\ \E r \in Ranks :
        /\ DOMAIN localRankData[r].evData = Names
        /\ \A n \in Names : n \in DOMAIN localRankData[r].evData =>
              localRankData[r].evData[n].count = 1

-----------------------------------------------------------------------------
(* Properties of getGlobalStats *)

StatsDone == stats.phase \in {"done", "printed"}
\* The entries of the vector that hold an event of that name.
Holders(name) ==
  {k \in 1 .. Len(stats.events) : name \in DOMAIN stats.events[k].evData}

\* C15: getGlobalStats reports every name present in the vector; the
\* reported max is at least, and the reported min at most, that of every
\* rank for the name; maxRank and minRank are ranks that hold the name
\* and whose own max and min are the reported values.
C15_GlobalExtremes ==
  StatsDone =>
    /\ DOMAIN stats.result
         = UNION {DOMAIN stats.events[k].evData : k \in 1 .. Len(stats.events)}
    /\ \A name \in DOMAIN stats.result :
          LET st == stats.result[name]
          IN  /\ \A k \in Holders(name) :
                    /\ st.max >= stats.events[k].evData[name].max
                    /\ st.min <= stats.events[k].evData[name].min
              /\ st.maxRank + 1 \in Holders(name)
              /\ st.minRank + 1 \in Holders(name)
              /\ st.maxRank + 1 \in Holders(name) =>
                    stats.events[st.maxRank + 1].evData[name].max = st.max
              /\ st.minRank + 1 \in Holders(name) =>
                    stats.events[st.minRank + 1].evData[name].min = st.min

\* C15 witness: ranks 0, 1 and 2 report one event with durations of 10,
\* 50 and 30 ms: max 50 ms on rank 1, min 10 ms on rank 0.
C15_Witness ==
  /\ StatsDone
  /\ Len(stats.events) >= 3
  /\ \E name \in DOMAIN stats.result :
        /\ {1, 2, 3} \subseteq Holders(name)
        /\ stats.events[1].evData[name].max = 10000000
        /\ stats.events[1].evData[name].min = 10000000
        /\ stats.events[2].evData[name].max = 50000000
        /\ stats.events[2].evData[name].min = 50000000
        /\ stats.events[3].evData[name].max = 30000000
        /\ stats.events[3].evData[name].min = 30000000
        /\ stats.result[name].max = 50000000
        /\ stats.result[name].maxRank = 1
        /\ stats.result[name].min = 10000000
        /\ stats.result[name].minRank = 0

\* C16: maxRank is the lowest rank whose max for the name is the reported
\* max, and minRank the lowest rank whose min is the reported min.
C16_FirstRankWinsTie ==
  StatsDone =>
    \A name \in DOMAIN stats.result :
       LET st == stats.result[name]
       IN  \A k \in Holders(name) :
              /\ stats.events[k].evData[name].max = st.max
                   => st.maxRank <= k - 1
              /\ stats.events[k].evData[name].min = st.min
                   => st.minRank <= k - 1

\* C16 witness: ranks 1 and 2 hold the largest max and the smallest min
\* of a name that rank 0 holds too, and rank 1 is reported for both.
C16_Witness ==
  /\ StatsDone
  /\ Len(stats.events) >= 3
  /\ \E name \in DOMAIN stats.result :
        /\ {1, 2, 3} \subseteq Holders(name)
        /\ stats.events[1].evData[name].max = 30000000
        /\ stats.events[1].evData[name].min = 30000000
        /\ stats.events[2].evData[name] = stats.events[3].evData[name]
        /\ stats.events[2].evData[name].max = 50000000
        /\ stats.events[2].evData[name].min = 10000000
        /\ stats.result[name].maxRank = 1
        /\ stats.result[name].minRank = 1

-----------------------------------------------------------------------------
(* Properties of one event's passage through collect *)

WireOn == wire.phase # "off"

\* C17 (as claimed): an event whose payload does not have the number of
\* samples and of state changes that its header declares is never added
\* to the RankData the coordinator builds.
C17_SizeMismatchIsFatal ==
  (WireOn /\ wire.phase = "received") =>
    /\ Len(wire.payload.data) = wire.hdr.dataSize
    /\ Len(wire.payload.stateChanges) = wire.hdr.stateChangesSize

\* C18 (as claimed): no header is sent for a name of more than 254
\* bytes, and the name under which the coordinator stores an event is the
\* name the sender holds.
C18_LongNameRejected ==
  WireOn =>
    /\ Len(wire.name) > NameBufSize - 1 => wire.hdr = NoHeader
    /\ wire.phase = "received" => DOMAIN wire.data.evData = {wire.name}

\* C21: printGlobalStats prints a row for every entry of the statistics;
\* where max is zero the ratio is 0 and nothing was divided, and where max
\* is not zero the ratio is min / max.
C21_RatioGuard ==
  stats.phase = "printed" =>
    /\ DOMAIN stats.rows = DOMAIN stats.result
    /\ \A name \in (DOMAIN stats.rows) \cap (DOMAIN stats.result) :
          LET st  == stats.result[name]
              rel == stats.rows[name].rel
          IN  /\ st.max = 0 => ~rel.divided /\ rel.num = 0 /\ rel.den = 1
              /\ st.max # 0 =>
                    /\ rel.divided
                    /\ rel.den # 0
                    /\ rel.num * (st.max \div TicksPerMs)
                         = (st.min \div TicksPerMs) * rel.den

\* C21 witness: two rows were printed, one for a name whose max is zero
\* and one for a name with min 10 ms and max 50 ms, ratio 1 / 5.
C21_Witness ==
  /\ stats.phase = "printed"
  /\ \E a, b \in DOMAIN stats.rows :
        /\ stats.rows[a].max = 0
        /\ ~stats.rows[a].rel.divided
        /\ stats.rows[b].max = 50000000
        /\ stats.rows[b].min = 10000000
        /\ stats.rows[b].rel.num = 1
        /\ stats.rows[b].rel.den = 5

-----------------------------------------------------------------------------
(* Properties of the collected RankData *)

\* The readings system_clock can give when the report is written.
ReportTimes == wall .. MaxWall

\* C23 (as claimed): getDuration() of every RankData that collect stored
\* in globalRankData is its received finalizedAt - initializedAt, whenever
\* the report is written.
C23_StoredAsFinalized ==
  \A k \in 1 .. Len(globalRankData[0]) :
     \A now \in ReportTimes :
        GetDuration(globalRankData[0][k], now)
          = globalRankData[0][k].finalizedAt
              - globalRankData[0][k].initializedAt

-----------------------------------------------------------------------------
(* Termination of finalize *)

\* Every rank has called finalize() on an initialized registry: its first
\* collective call is the MPI_Allreduce of normalize.
AllCalledFinalize ==
  \A r \in Ranks : Len(coll[r]) >= 1 /\ coll[r][1].kind = "allreduce"
\* A process failed: an assertion aborted it.
SomeFailed == \E r \in Ranks : pc[r] = "aborted"
\* Every rank has returned from finalize().
AllReturned == \A r \in Ranks : pc[r] = "idle" /\ calls[r].fin >= 1
NothingInFlight == \A r \in Ranks : chan[r] = <<>>

\* C22: when every rank has called finalize() after initialize(), then,
\* unless a process fails, every rank returns from finalize(), and when
\* all have returned no message is left unreceived.
C22_FinalizeReturns ==
  /\ AllCalledFinalize ~> (SomeFailed \/ (AllReturned /\ NothingInFlight))
  /\ []((AllCalledFinalize /\ AllReturned) => NothingInFlight)

\* C22 witness: every rank has returned from its finalize() after
\* initialize(), rank 0 holds N entries and one of them has an event.
C22_Witness ==
  /\ AllCalledFinalize
  /\ AllReturned
  /\ NothingInFlight
  /\ Len(globalRankData[0]) = N
  /\ \E k \in 1 .. Len(globalRankData[0]) :
        globalRankData[0][k].evData # <<>>

=============================================================================
